---- MODULE Spec2Model ----
(***************************************************************************)
(* Vendor catalog sync: the four catalog-sync handler variants and the     *)
(* WhatsApp product-sync handler, all writing the shared vendor_listings   *)
(* table.  Every request is one atomic step of the model: the handler's    *)
(* whole control flow, with the outcome of each external call (table       *)
(* lookup, update, upsert, audit write) chosen by the environment.         *)
(***************************************************************************)
EXTENDS Integers, Sequences, FiniteSets, TLC

VARIABLES
  vendor_listings,  \* the vendor_listings table: a sequence of rows
  vendor_api_keys,  \* the vendor_api_keys table: a set of rows
  unique_pair,      \* schema: is there a unique index on (vendor_id, external_id)?
  now,              \* the clock read by new Date()
  last              \* the request handled last, with its response and trace

vars == <<vendor_listings, vendor_api_keys, unique_pair, now, last>>

(***************************************************************************)
(* Bounds of the model.                                                    *)
(***************************************************************************)
MaxClock == 3   \* number of requests in one behaviour
MaxItems == 2   \* longest products array submitted

(***************************************************************************)
(* JavaScript / JSON values, tagged by their type.                         *)
(***************************************************************************)
Undef == [t |-> "undefined"]
Null == [t |-> "null"]
NaN == [t |-> "nan"]
Num(n) == [t |-> "number", n |-> n]
Str(s) == [t |-> "string", s |-> s]
Arr(a) == [t |-> "array", a |-> a]
Obj(o) == [t |-> "object", o |-> o]
Bool(b) == [t |-> "boolean", b |-> b]
Txt(c) == [t |-> "string", c |-> c]  \* a string kept as its characters
Malformed == [t |-> "malformed"]   \* a body that is not JSON text

NoFields == [k \in {} |-> Undef]

\* JavaScript truthiness (the left operand test of || and of !).
Truthy(v) ==
  /\ v.t \notin {"undefined", "null", "nan"}
  /\ (v.t = "number" => v.n # 0)
  /\ (v.t = "string" => IF "c" \in DOMAIN v THEN v.c # <<>> ELSE v.s # "")
  /\ (v.t = "boolean" => v.b)

\* a || b
Or(a, b) == IF Truthy(a) THEN a ELSE b

\* a ?? b
Coalesce(a, b) == IF a.t \in {"undefined", "null"} THEN b ELSE a

\* v.k : reading a property of null or undefined throws a TypeError.
Throws(v) == v.t \in {"undefined", "null"}

Get(v, k) ==
  IF v.t = "object" /\ k \in DOMAIN v.o THEN v.o[k] ELSE Undef

\* 'k' in v : throws a TypeError unless v is an object (or array).
HasKey(v, k) == v.t = "object" /\ k \in DOMAIN v.o

\* v?.[0]
First(v) == IF v.t = "array" /\ Len(v.a) > 0 THEN v.a[1] ELSE Undef

\* Number.prototype.toString / String.prototype.toString
ToStr(v) == IF v.t = "number" THEN Str(ToString(v.n)) ELSE v

\* parseFloat on the price strings the model submits: the longest numeric
\* prefix, NaN when there is none.
PriceStrings == {"0", "5", "12", "7up", "abc"}

parseFloat(v) ==
  CASE v.t = "number" -> v
    [] v.t = "string" /\ v.s = "0" -> Num(0)
    [] v.t = "string" /\ v.s = "5" -> Num(5)
    [] v.t = "string" /\ v.s = "12" -> Num(12)
    [] v.t = "string" /\ v.s = "7up" -> Num(7)
    [] OTHER -> NaN

(***************************************************************************)
(* Header strings are sequences of characters.                             *)
(***************************************************************************)
Bearer == <<"B", "e", "a", "r", "e", "r", " ">>

IsPrefix(p, s) == Len(p) <= Len(s) /\ SubSeq(s, 1, Len(p)) = p

\* s.substring(n)
Substring(s, n) == SubSeq(s, n + 1, Len(s))

\* the first index at which p occurs in s, 0 when it does not
IndexOf(p, s) ==
  LET hits == {i \in 1..(Len(s) - Len(p) + 1) : SubSeq(s, i, i + Len(p) - 1) = p}
  IN IF hits = {} THEN 0 ELSE CHOOSE i \in hits : \A j \in hits : i <= j

\* s.replace(p, '') : removes the first occurrence only
ReplaceFirst(s, p) ==
  LET i == IndexOf(p, s)
  IN IF i = 0 THEN s ELSE SubSeq(s, 1, i - 1) \o SubSeq(s, i + Len(p), Len(s))

RECURSIVE TrimLeft(_)
TrimLeft(s) == IF s # <<>> /\ Head(s) = " " THEN TrimLeft(Tail(s)) ELSE s

RECURSIVE TrimRight(_)
TrimRight(s) ==
  IF s # <<>> /\ s[Len(s)] = " " THEN TrimRight(SubSeq(s, 1, Len(s) - 1)) ELSE s

\* s.trim()
Trim(s) == TrimRight(TrimLeft(s))

(***************************************************************************)
(* The tables.                                                             *)
(***************************************************************************)
Key1 == <<"k", "1">>
Key2 == <<"k", "2">>
KeyX == <<"k", "x">>

\* vendor_api_keys as provisioned: one key per vendor, both active.
InitialKeys ==
  { [id |-> "id1", api_key |-> Key1, vendor_id |-> "V1", is_active |-> TRUE,
     last_used_at |-> 0],
    [id |-> "id2", api_key |-> Key2, vendor_id |-> "V2", is_active |-> TRUE,
     last_used_at |-> 0] }

\* shopify_store_mappings: read-only for the handlers.
shopify_store_mappings ==
  { [store_name |-> "Acme", shop_url |-> "acme.shop", vendor_id |-> "V1"],
    [store_name |-> "Bolt", shop_url |-> "bolt.shop", vendor_id |-> "V2"] }

Columns ==
  {"vendor_id", "external_id", "title", "description", "price", "currency",
   "category", "inventory_count", "status", "images", "tags", "location",
   "metadata", "source", "synced_at", "visible_on_dashboard", "original_link"}

\* JSON.stringify drops the properties whose value is undefined and writes
\* NaN as null.
Stringify(payload) ==
  [c \in {k \in DOMAIN payload : payload[k] # Undef} |->
     IF payload[c] = NaN THEN Null ELSE payload[c]]

\* The row an INSERT of the payload creates: absent columns take the column
\* default, which the model writes Null.
NewRow(payload) ==
  [c \in Columns |-> IF c \in DOMAIN payload THEN payload[c] ELSE Null]

\* ON CONFLICT ... DO UPDATE SET: only the columns of the payload change.
Merge(row, payload) ==
  [c \in Columns |-> IF c \in DOMAIN payload THEN payload[c] ELSE row[c]]

\* A conflict target of external_id alone.
Conflicts_ByExternalId(listings, payload) ==
  IF "external_id" \notin DOMAIN payload \/ payload["external_id"] = Null
  THEN {}
  ELSE {i \in 1..Len(listings) : listings[i]["external_id"] = payload["external_id"]}

\* The rows holding the payload's (vendor_id, external_id); a NULL never
\* equals anything, so a payload without external_id conflicts with no row.
Conflicts(listings, payload) ==
  IF "external_id" \notin DOMAIN payload \/ "vendor_id" \notin DOMAIN payload
     \/ payload["external_id"] = Null \/ payload["vendor_id"] = Null
  THEN {}
  ELSE {i \in 1..Len(listings) :
          /\ listings[i]["vendor_id"] = payload["vendor_id"]
          /\ listings[i]["external_id"] = payload["external_id"]}

(***************************************************************************)
(* The store's upsert.  outcome is the environment's part: "ok" the        *)
(* statement reaches the table, "error" the client returns an error,       *)
(* "throw" the call raises.  onConflict is "pair" for                      *)
(* onConflict: 'vendor_id,external_id' and "pk" when none is given (the    *)
(* conflict target is then the primary key, which no payload carries).     *)
(* Result: the table afterwards and "ok", "error" or "throw".              *)
(***************************************************************************)
Upsert(listings, raw, onConflict, outcome, uniq) ==
  LET payload == Stringify(raw)
      hit == Conflicts(listings, payload)
  IN IF outcome # "ok" THEN [listings |-> listings, res |-> outcome]
     ELSE IF onConflict = "pair"
     THEN IF ~uniq
          THEN \* no unique constraint matching the ON CONFLICT specification
               [listings |-> listings, res |-> "error"]
          ELSE IF hit = {}
          THEN [listings |-> Append(listings, NewRow(payload)), res |-> "ok"]
          ELSE [listings |->
                  [i \in 1..Len(listings) |->
                     IF i \in hit THEN Merge(listings[i], payload) ELSE listings[i]],
                res |-> "ok"]
     ELSE IF uniq /\ hit # {}
          THEN \* duplicate key value violates the unique constraint
               [listings |-> listings, res |-> "error"]
          ELSE [listings |-> Append(listings, NewRow(payload)), res |-> "ok"]

(***************************************************************************)
(* What a handler run produces: the tables afterwards, the response        *)
(* (status 0: the exception left the handler, no response was built) and   *)
(* the trace of what the run did.                                          *)
(***************************************************************************)
Result(listings, keys, status, error, count, ecount, tr) ==
  [listings |-> listings, keys |-> keys, status |-> status, error |-> error,
   count |-> count, error_count |-> ecount,
   audit |-> tr.audit, strategies |-> tr.strategies, resolved |-> tr.resolved,
   attempts |-> tr.attempts, sent |-> tr.sent, extraction |-> tr.extraction,
   touch |-> tr.touch]

NoTrace ==
  [audit |-> <<>>, strategies |-> <<>>, resolved |-> "none", attempts |-> <<>>,
   sent |-> 0, extraction |-> <<>>, touch |-> "none"]

\* The lookup without .eq('is_active', true).
ActiveKeyRows_IgnoreActive(keys, token) == {r \in keys : r.api_key = token}

\* .eq('api_key', token).eq('is_active', true).maybeSingle()
\* [error, data]: more than one matching row is an error, none is null data.
ActiveKeyRows(keys, token) == {r \in keys : r.api_key = token /\ r.is_active}

\* .eq(column, value).maybeSingle() on shopify_store_mappings
MappedStores(column, value) ==
  {m \in shopify_store_mappings :
     IF column = "store_name" THEN Str(m.store_name) = value ELSE Str(m.shop_url) = value}

\* logRequest: one audit entry for the request; a failed write is swallowed.
logRequest(tr, vendor, status, env) ==
  [tr EXCEPT !.audit = Append(@, [vendor |-> vendor, status |-> status,
                                   written |-> env.log = "ok"])]

\* The environment's outcome for the i-th item's upsert.
UpsertOutcome(env, i) == IF i \in DOMAIN env.ups THEN env.ups[i] ELSE "ok"

\* for (const product of v): an array yields its elements, a string its
\* characters; anything else is not iterable and throws a TypeError.
Iterable(v) == v.t \in {"array", "string"}

Items(v) ==
  IF v.t = "array" THEN v.a
  ELSE IF v = Str("ab") THEN <<Str("a"), Str("b")>>
  ELSE <<>>

\* event.headers.authorization || '' ; auth.replace('Bearer ', '').trim()
AuthToken(req) ==
  Trim(ReplaceFirst(IF req.authorization.present THEN req.authorization.v ELSE <<>>,
                    Bearer))

\* JSON.parse(event.body || '{}')
\* (an absent body is Undef; any body text, "null" included, is truthy)
ParseBody(req) == IF req.body = Undef THEN Obj(NoFields) ELSE req.body

\* An exception that leaves the handler: no response is built (status 0).
Unhandled(listings, keys, tr) ==
  Result(listings, keys, 0, "unhandled exception", 0, 0, tr)

(***************************************************************************)
(* serve(...) of the edge function: the product loop.                      *)
(***************************************************************************)
serveProductData(vendor, product, clock) ==
  [vendor_id |-> Str(vendor),
   external_id |-> Get(product, "external_id"),
   title |-> Get(product, "title"),
   description |-> Or(Get(product, "description"), Null),
   price |-> Or(Get(product, "price"), Null),
   category |-> Or(Get(product, "category"), Null),
   inventory_count |-> Or(Get(product, "inventory_count"), Num(0)),
   status |-> Or(Get(product, "status"), Str("active")),
   images |-> Or(Get(product, "images"), Arr(<<>>)),
   metadata |-> Or(Get(product, "metadata"), Obj(NoFields)),
   synced_at |-> Num(clock)]

\* acc: [listings, processed, errors, attempts, thrown]; thrown: an exception
\* left the loop (raised inside the per-item catch clause itself).
RECURSIVE serveLoop(_, _, _, _, _, _, _)
serveLoop(items, i, vendor, acc, env, uniq, clock) ==
  IF i > Len(items) \/ acc.thrown THEN acc
  ELSE
    LET product == items[i] IN
    IF Throws(product)
    THEN \* product.external_id throws in the try and again in the catch
         [acc EXCEPT !.thrown = TRUE]
    ELSE IF ~Truthy(Get(product, "external_id")) \/ ~Truthy(Get(product, "title"))
    THEN serveLoop(items, i + 1, vendor, [acc EXCEPT !.errors = @ + 1], env, uniq, clock)
    ELSE
      LET productData == serveProductData(vendor, product, clock)
          u == Upsert(acc.listings, productData, "pair", UpsertOutcome(env, i), uniq)
          att == Append(acc.attempts, [item |-> i, payload |-> productData, outcome |-> UpsertOutcome(env, i), res |-> u.res])
      IN IF u.res = "ok"
         THEN serveLoop(items, i + 1, vendor,
                        [acc EXCEPT !.listings = u.listings, !.processed = @ + 1,
                                    !.attempts = att], env, uniq, clock)
         ELSE serveLoop(items, i + 1, vendor,
                        [acc EXCEPT !.errors = @ + 1, !.attempts = att], env, uniq, clock)

\* images?.map((img) => img.src) || []
ImageSrcs(v) ==
  IF v.t = "array" THEN Arr([i \in 1..Len(v.a) |-> Get(v.a[i], "src")]) ELSE Arr(<<>>)

\* The Shopify product object rewritten as a one-element products array.
serveTransform(rawBody) ==
  Obj([products |-> Arr(<<
    Obj([external_id |-> ToStr(Get(rawBody, "id")),
         title |-> Get(rawBody, "title"),
         description |-> Or(Get(rawBody, "body_html"), Str("")),
         price |-> parseFloat(Or(Get(First(Get(rawBody, "variants")), "price"), Str("0"))),
         category |-> Or(Get(rawBody, "product_type"), Str("Uncategorized")),
         inventory_count |->
           Or(Get(First(Get(rawBody, "variants")), "inventory_quantity"), Num(0)),
         status |-> Or(Get(rawBody, "status"), Str("active")),
         images |-> ImageSrcs(Get(rawBody, "images")),
         metadata |-> Obj([vendor |-> Or(Get(rawBody, "vendor"), Str("Unknown")),
                           shopify_handle |-> Get(rawBody, "handle")])]) >>)])

\* A catch block out of which a failed audit write escapes.
serveCatch_AuditFailureEscapes(listings, keys, tr, env) ==
  IF env.log = "ok"
  THEN Result(listings, keys, 500, "Internal server error", 0, 0,
              logRequest(tr, "none", 500, env))
  ELSE Unhandled(listings, keys, tr)

\* The outer catch block: log 500, answer 500 with a generic message.
serveCatch(listings, keys, tr, env) ==
  Result(listings, keys, 500, "Internal server error", 0, 0,
         logRequest(tr, "none", 500, env))

\* After authentication: parse, classify, validate, loop, respond.
serveBody(req, env, listings, keys, uniq, clock, keyData, tr) ==
  LET rawBody == req.body IN
  IF rawBody.t \in {"malformed", "undefined"}
  THEN serveCatch(listings, keys, tr, env)          \* req.json() rejects
  ELSE IF rawBody.t \notin {"object", "array"}
  THEN serveCatch(listings, keys, tr, env)          \* 'title' in rawBody throws
  ELSE
    LET shopify == HasKey(rawBody, "title") /\ HasKey(rawBody, "variants") IN
    IF shopify /\ Throws(Get(rawBody, "id"))
    THEN serveCatch(listings, keys, tr, env)        \* rawBody.id.toString() throws
    ELSE
      LET requestBody == IF shopify THEN serveTransform(rawBody) ELSE rawBody
          products == Get(requestBody, "products")
      IN
      IF ~Truthy(products) \/ products.t # "array"
      THEN Result(listings, keys, 400, "Invalid request body: products array required",
                  0, 0, logRequest(tr, keyData.vendor_id, 400, env))
      ELSE IF Len(products.a) = 0
      THEN Result(listings, keys, 400, "Empty products array", 0, 0,
                  logRequest(tr, keyData.vendor_id, 400, env))
      ELSE
        LET acc == serveLoop(products.a, 1, keyData.vendor_id,
                             [listings |-> listings, processed |-> 0, errors |-> 0,
                              attempts |-> <<>>, thrown |-> FALSE], env, uniq, clock)
            tr2 == [tr EXCEPT !.attempts = acc.attempts]
        IN IF acc.thrown
           THEN serveCatch(acc.listings, keys, tr2, env)
           ELSE Result(acc.listings, keys, 200, "", acc.processed, acc.errors,
                       logRequest(tr2, keyData.vendor_id, 200, env))

\* serve(async (req) => ...)
serve(req, env, listings, keys, uniq, clock) ==
  IF req.method = "OPTIONS"
  THEN Result(listings, keys, 200, "", 0, 0, NoTrace)
  ELSE IF req.method # "POST"
  THEN Result(listings, keys, 405, "Method not allowed", 0, 0, NoTrace)
  ELSE IF ~req.authorization.present \/ ~IsPrefix(Bearer, req.authorization.v)
  THEN Result(listings, keys, 401, "Missing or invalid Authorization header", 0, 0,
              logRequest(NoTrace, "none", 401, env))
  ELSE
    LET apiKey == Substring(req.authorization.v, 7)
        tr1 == [NoTrace EXCEPT !.strategies = <<[name |-> "api_key", outcome |-> env.key]>>]
        rows == ActiveKeyRows(keys, apiKey)
    IN
    IF env.key = "throw"
    THEN serveCatch(listings, keys, tr1, env)
    ELSE IF env.key = "error" \/ Cardinality(rows) # 1
    THEN Result(listings, keys, 401, "Invalid API key", 0, 0,
                logRequest(tr1, "none", 401, env))
    ELSE
      LET keyData == CHOOSE r \in rows : TRUE
          tr2 == [tr1 EXCEPT !.resolved = keyData.vendor_id, !.touch = env.touch]
          keys2 == IF env.touch = "ok"
                   THEN (keys \ {keyData}) \cup {[keyData EXCEPT !.last_used_at = clock]}
                   ELSE keys
      IN IF env.touch = "throw"
         THEN serveCatch(listings, keys, tr2, env)
         ELSE serveBody(req, env, listings, keys2, uniq, clock, keyData, tr2)

(***************************************************************************)
(* handler of catalog-sync.ts and its variant with the shop-domain         *)
(* fallback: vendor resolution, product parsing, upsert loop.              *)
(***************************************************************************)
\* [kind, vendor, error, tr]: kind is "ok", "reject" (401) or "throw".
ResolveByKey(token, env, keys, tr) ==
  LET rows == ActiveKeyRows(keys, token)
      tr1 == [tr EXCEPT !.strategies = Append(@, [name |-> "api_key", outcome |-> env.key])]
  IN IF env.key = "throw" THEN [kind |-> "throw", vendor |-> "none", error |-> "", tr |-> tr1]
     ELSE IF env.key = "error" \/ Cardinality(rows) # 1
     THEN [kind |-> "reject", vendor |-> "none", error |-> "Invalid API key", tr |-> tr1]
     ELSE LET v == (CHOOSE r \in rows : TRUE).vendor_id
          IN [kind |-> "ok", vendor |-> v, error |-> "", tr |-> [tr1 EXCEPT !.resolved = v]]

ResolveByStore(column, value, unmapped, env, tr) ==
  LET rows == MappedStores(column, value)
      tr1 == [tr EXCEPT !.strategies = Append(@, [name |-> column, outcome |-> env.map])]
  IN IF env.map = "throw" THEN [kind |-> "throw", vendor |-> "none", error |-> "", tr |-> tr1]
     ELSE IF env.map = "error" \/ Cardinality(rows) # 1
     THEN [kind |-> "reject", vendor |-> "none", error |-> unmapped, tr |-> tr1]
     ELSE LET v == (CHOOSE r \in rows : TRUE).vendor_id
          IN [kind |-> "ok", vendor |-> v, error |-> "", tr |-> [tr1 EXCEPT !.resolved = v]]

\* A resolver that falls through to the store lookup when the key is refused.
resolveVendor_fallthrough(req, env, keys) ==
  LET token == AuthToken(req)
      byKey == ResolveByKey(token, env, keys, NoTrace)
  IN
  IF token # <<>> /\ byKey.kind # "reject"
  THEN byKey
  ELSE IF req.body = Malformed
  THEN [kind |-> "throw", vendor |-> "none", error |-> "", tr |-> NoTrace]
  ELSE
    LET storeName == Get(ParseBody(req), "vendor")
        tr == IF token # <<>> THEN byKey.tr ELSE NoTrace
    IN IF ~Truthy(storeName)
       THEN [kind |-> "reject", vendor |-> "none",
             error |-> "No vendor name provided in webhook", tr |-> tr]
       ELSE ResolveByStore("store_name", storeName, "No vendor matched for this store",
                           env, tr)

\* catalog-sync.ts: API key first, else the store name in the body.
resolveVendor_catalog_sync(req, env, keys) ==
  LET token == AuthToken(req) IN
  IF token # <<>>
  THEN ResolveByKey(token, env, keys, NoTrace)
  ELSE IF req.body = Malformed
  THEN [kind |-> "throw", vendor |-> "none", error |-> "", tr |-> NoTrace]
  ELSE
    LET rawBody == ParseBody(req)
        storeName == Get(rawBody, "vendor")
    IN IF ~Truthy(storeName)
       THEN [kind |-> "reject", vendor |-> "none",
             error |-> "No vendor name provided in webhook", tr |-> NoTrace]
       ELSE ResolveByStore("store_name", storeName, "No vendor matched for this store",
                           env, NoTrace)

\* The variant with STEP 1 / STEP 2: the store name in the body, else the
\* x-shopify-shop-domain header.
resolveVendor_shop_domain(req, env, keys) ==
  LET token == AuthToken(req) IN
  IF token # <<>>
  THEN ResolveByKey(token, env, keys, NoTrace)
  ELSE IF req.body = Malformed
  THEN [kind |-> "throw", vendor |-> "none", error |-> "", tr |-> NoTrace]
  ELSE
    LET rawBody == ParseBody(req)
        vendorName == Get(rawBody, "vendor")
        shopDomain == Or(req.shop_domain, Str(""))
        storeLookupField == Or(vendorName, shopDomain)
        storeColumn == IF Truthy(vendorName) THEN "store_name" ELSE "shop_url"
    IN IF ~Truthy(storeLookupField)
       THEN [kind |-> "reject", vendor |-> "none",
             error |-> "No vendor/store identifier found", tr |-> NoTrace]
       ELSE ResolveByStore(storeColumn, storeLookupField, "Store not mapped to vendor",
                           env, NoTrace)

\* payload.products || (payload.title ? [{...}] : []); optionalId is the
\* variant's payload.id?.toString().  [throws, products]
parseProducts(payload, optionalId) ==
  LET given == Get(payload, "products") IN
  IF Throws(payload) THEN [throws |-> TRUE, products |-> Undef]
  ELSE IF Truthy(given) THEN [throws |-> FALSE, products |-> given]
  ELSE IF ~Truthy(Get(payload, "title")) THEN [throws |-> FALSE, products |-> Arr(<<>>)]
  ELSE IF ~optionalId /\ Throws(Get(payload, "id"))
  THEN [throws |-> TRUE, products |-> Undef]
  ELSE [throws |-> FALSE, products |-> Arr(<<
    Obj([external_id |-> ToStr(Get(payload, "id")),
         title |-> Get(payload, "title"),
         description |-> Or(Get(payload, "body_html"), Str("")),
         price |-> parseFloat(Or(Get(First(Get(payload, "variants")), "price"), Str("0"))),
         category |-> Or(Get(payload, "product_type"), Str("Uncategorized")),
         inventory_count |->
           Or(Get(First(Get(payload, "variants")), "inventory_quantity"), Num(0)),
         status |-> Str("approved"),
         images |-> ImageSrcs(Get(payload, "images")),
         metadata |-> Obj([vendor |-> Or(Get(payload, "vendor"), Str("")),
                           handle |-> Or(Get(payload, "handle"), Str("")),
                           shopify_id |-> Get(payload, "id")])]) >>)]

syncInsertData(vendor, product, clock) ==
  [vendor_id |-> Str(vendor),
   external_id |-> Get(product, "external_id"),
   title |-> Get(product, "title"),
   description |-> Or(Get(product, "description"), Str("")),
   price |-> Or(Get(product, "price"), Num(0)),
   category |-> Or(Get(product, "category"), Str("Real Estate")),
   inventory_count |-> Or(Get(product, "inventory_count"), Num(1)),
   status |-> Str("approved"),
   images |-> Or(Get(product, "images"), Arr(<<>>)),
   metadata |-> Or(Get(product, "metadata"), Obj(NoFields)),
   source |-> Str("shopify-sync"),
   synced_at |-> Num(clock),
   visible_on_dashboard |-> Bool(TRUE)]

\* acc: [listings, synced, attempts, thrown].  The upsert's result is not
\* looked at: every item whose upsert returns is counted as synced.
RECURSIVE syncLoop(_, _, _, _, _, _, _)
syncLoop(items, i, vendor, acc, env, uniq, clock) ==
  IF i > Len(items) \/ acc.thrown THEN acc
  ELSE
    LET product == items[i] IN
    IF Throws(product) THEN [acc EXCEPT !.thrown = TRUE]
    ELSE
      LET insertData == syncInsertData(vendor, product, clock)
          u == Upsert(acc.listings, insertData, "pair", UpsertOutcome(env, i), uniq)
          att == Append(acc.attempts, [item |-> i, payload |-> insertData, outcome |-> UpsertOutcome(env, i), res |-> u.res])
      IN IF u.res = "throw"
         THEN [acc EXCEPT !.attempts = att, !.thrown = TRUE]
         ELSE syncLoop(items, i + 1, vendor,
                       [acc EXCEPT !.listings = u.listings, !.synced = @ + 1,
                                   !.attempts = att], env, uniq, clock)

\* From the second JSON.parse on, for a resolved vendor.
syncProducts(req, env, listings, keys, uniq, clock, vendor, tr, optionalId) ==
  IF req.body = Malformed THEN Unhandled(listings, keys, tr)
  ELSE
    LET p == parseProducts(ParseBody(req), optionalId) IN
    IF p.throws \/ ~Iterable(p.products) THEN Unhandled(listings, keys, tr)
    ELSE
      LET acc == syncLoop(Items(p.products), 1, vendor,
                          [listings |-> listings, synced |-> 0, attempts |-> <<>>,
                           thrown |-> FALSE], env, uniq, clock)
          tr2 == [tr EXCEPT !.attempts = acc.attempts]
      IN IF acc.thrown THEN Unhandled(acc.listings, keys, tr2)
         ELSE Result(acc.listings, keys, 200, "", acc.synced, 0, tr2)

\* The handler without its method check.
handler_sync_AnyMethod(req, env, listings, keys, uniq, clock, r, optionalId) ==
  IF r.kind = "throw" THEN Unhandled(listings, keys, r.tr)
  ELSE IF r.kind = "reject" THEN Result(listings, keys, 401, r.error, 0, 0, r.tr)
  ELSE syncProducts(req, env, listings, keys, uniq, clock, r.vendor, r.tr, optionalId)

\* The handler with the rejection moved behind the upsert loop.
handler_sync_RejectAfterLoop(req, env, listings, keys, uniq, clock, r, optionalId) ==
  IF req.method # "POST"
  THEN Result(listings, keys, 405, "Method Not Allowed", 0, 0, NoTrace)
  ELSE IF r.kind = "throw" THEN Unhandled(listings, keys, r.tr)
  ELSE
    LET done == syncProducts(req, env, listings, keys, uniq, clock, r.vendor, r.tr,
                             optionalId)
    IN IF r.kind = "reject"
       THEN Result(done.listings, keys, 401, r.error, 0, 0,
                   [r.tr EXCEPT !.attempts = done.attempts])
       ELSE done

handler_sync(req, env, listings, keys, uniq, clock, r, optionalId) ==
  IF req.method # "POST"
  THEN Result(listings, keys, 405, "Method Not Allowed", 0, 0, NoTrace)
  ELSE IF r.kind = "throw" THEN Unhandled(listings, keys, r.tr)
  ELSE IF r.kind = "reject" THEN Result(listings, keys, 401, r.error, 0, 0, r.tr)
  ELSE syncProducts(req, env, listings, keys, uniq, clock, r.vendor, r.tr, optionalId)

\* export const handler of netlify/functions/catalog-sync.ts
handler_catalog_sync(req, env, listings, keys, uniq, clock) ==
  handler_sync(req, env, listings, keys, uniq, clock,
               resolveVendor_catalog_sync(req, env, keys), FALSE)

\* export const handler of the shop-domain variant
handler_shop_domain(req, env, listings, keys, uniq, clock) ==
  handler_sync(req, env, listings, keys, uniq, clock,
               resolveVendor_shop_domain(req, env, keys), TRUE)

(***************************************************************************)
(* The API-key-only handler: lookup with whatever token the header gives,  *)
(* an upsert of eight columns with no conflict target.                     *)
(***************************************************************************)
keyonlyTransform(body) ==
  Obj([products |-> Arr(<<
    Obj([external_id |-> ToStr(Get(body, "id")),
         title |-> Get(body, "title"),
         description |-> Get(body, "body_html"),
         price |-> parseFloat(Or(Get(First(Get(body, "variants")), "price"), Str("0"))),
         category |-> Or(Get(body, "product_type"), Str("Uncategorized")),
         inventory_count |->
           Or(Get(First(Get(body, "variants")), "inventory_quantity"), Num(0)),
         status |-> Or(Get(body, "status"), Str("active")),
         images |-> ImageSrcs(Get(body, "images")),
         metadata |-> Obj([vendor |-> Get(body, "vendor"),
                           handle |-> Get(body, "handle")])]) >>)])

keyonlyPayload(vendor, product, clock) ==
  [vendor_id |-> Str(vendor),
   external_id |-> Get(product, "external_id"),
   title |-> Get(product, "title"),
   description |-> Get(product, "description"),
   price |-> Get(product, "price"),
   status |-> Get(product, "status"),
   metadata |-> Get(product, "metadata"),
   synced_at |-> Num(clock)]

\* acc: [listings, synced, attempts, thrown]
RECURSIVE keyonlyLoop(_, _, _, _, _, _, _)
keyonlyLoop(items, i, vendor, acc, env, uniq, clock) ==
  IF i > Len(items) \/ acc.thrown THEN acc
  ELSE
    LET product == items[i] IN
    IF Throws(product) THEN [acc EXCEPT !.thrown = TRUE]
    ELSE
      LET payload == keyonlyPayload(vendor, product, clock)
          u == Upsert(acc.listings, payload, "pk", UpsertOutcome(env, i), uniq)
          att == Append(acc.attempts, [item |-> i, payload |-> payload, outcome |-> UpsertOutcome(env, i), res |-> u.res])
      IN IF u.res = "throw"
         THEN [acc EXCEPT !.attempts = att, !.thrown = TRUE]
         ELSE keyonlyLoop(items, i + 1, vendor,
                          [acc EXCEPT !.listings = u.listings,
                                      !.synced = IF u.res = "ok" THEN @ + 1 ELSE @,
                                      !.attempts = att], env, uniq, clock)

handler_keyonly(req, env, listings, keys, uniq, clock) ==
  IF req.method # "POST"
  THEN Result(listings, keys, 405, "Method Not Allowed", 0, 0, NoTrace)
  ELSE
    LET r == ResolveByKey(AuthToken(req), env, keys, NoTrace) IN
    IF r.kind = "throw" THEN Unhandled(listings, keys, r.tr)
    ELSE IF r.kind = "reject" THEN Result(listings, keys, 401, r.error, 0, 0, r.tr)
    ELSE IF req.body = Malformed THEN Unhandled(listings, keys, r.tr)
    ELSE
      LET body0 == ParseBody(req)
          shopify == Truthy(body0) /\ Truthy(Get(body0, "title"))
                     /\ Truthy(Get(body0, "variants"))
      IN
      IF shopify /\ Throws(Get(body0, "id")) THEN Unhandled(listings, keys, r.tr)
      ELSE
        LET body == IF shopify THEN keyonlyTransform(body0) ELSE body0
            products == Or(Get(body, "products"), Arr(<<>>))
        IN
        IF Throws(body) \/ ~Iterable(products) THEN Unhandled(listings, keys, r.tr)
        ELSE
          LET acc == keyonlyLoop(Items(products), 1, r.vendor,
                                 [listings |-> listings, synced |-> 0, attempts |-> <<>>,
                                  thrown |-> FALSE], env, uniq, clock)
              tr2 == [r.tr EXCEPT !.attempts = acc.attempts]
          IN IF acc.thrown THEN Unhandled(acc.listings, keys, tr2)
             ELSE Result(acc.listings, keys, 200, "", acc.synced, 0, tr2)

(***************************************************************************)
(* whatsapp_product_sync: the conversational channel.                      *)
(***************************************************************************)
ALLOWED_STATUSES == {Str("active"), Str("inactive"), Str("draft")}

TitleFallbackLen == 120   \* .slice(0, 120) in aiExtractProduct
TitleLen == 200           \* .slice(0, 200) in the handler

Untitled ==
  Txt(<<"U", "n", "t", "i", "t", "l", "e", "d", " ", "p", "r", "o", "d", "u", "c", "t">>)

Digits == {"0", "1", "2", "3", "4", "5", "6", "7", "8", "9"}

\* profiles: read-only for the handler.
profiles ==
  { [user_id |-> "V1", whatsapp_msisdn |-> <<"2", "3", "4">>,
     whatsapp_number |-> <<"+", "2", "3", "4">>],
    [user_id |-> "V2", whatsapp_msisdn |-> <<>>,
     whatsapp_number |-> <<"5", "6">>] }

\* s.slice(0, n) of a string kept as characters
Slice(v, n) == Txt(SubSeq(v.c, 1, IF Len(v.c) < n THEN Len(v.c) ELSE n))

RECURSIVE KeepDigits(_)
KeepDigits(c) ==
  IF c = <<>> THEN <<>>
  ELSE IF Head(c) \in Digits THEN <<Head(c)>> \o KeepDigits(Tail(c))
  ELSE KeepDigits(Tail(c))

\* normalizeMsisdn: digits only, "" for a missing input
normalizeMsisdn(input) == IF ~Truthy(input) THEN <<>> ELSE KeepDigits(input.c)

\* findProfileByWaId: [throws, profile]; profile is a row or Undef
findProfileByWaId(waId, env) ==
  LET msisdn == normalizeMsisdn(waId)
      rows == {p \in profiles :
                 \/ p.whatsapp_msisdn = msisdn
                 \/ p.whatsapp_number = <<"+">> \o msisdn
                 \/ p.whatsapp_number = msisdn}
  IN IF env.profile # "ok" THEN [throws |-> TRUE, rows |-> {}]
     ELSE [throws |-> FALSE, rows |-> rows]

\* delete parsed.status
DeleteStatus(parsed) ==
  Obj([k \in DOMAIN parsed.o \ {"status"} |-> parsed.o[k]])

\* aiExtractProduct: ai is what the extraction call gave: [kind |-> "fail"]
\* (transport error or non-OK status) or [kind |-> "content", parsed |-> v],
\* v the JSON value of the returned content (Malformed when it is not JSON).
aiExtractProduct(text, ai) ==
  LET fallback == Obj([title |-> Slice(Or(text, Untitled), TitleFallbackLen)]) IN
  IF ai.kind = "fail" THEN fallback
  ELSE IF ai.parsed = Malformed \/ Throws(ai.parsed) THEN fallback
  ELSE IF Truthy(Get(ai.parsed, "status")) /\ Get(ai.parsed, "status") \notin ALLOWED_STATUSES
  THEN DeleteStatus(ai.parsed)
  ELSE ai.parsed

RECURSIVE Dedupe(_)
Dedupe(q) ==
  IF q = <<>> THEN <<>>
  ELSE LET front == Dedupe(SubSeq(q, 1, Len(q) - 1))
       IN IF \E i \in 1..Len(front) : front[i] = q[Len(q)]
          THEN front ELSE Append(front, q[Len(q)])

\* upsertListing: POST with Prefer: resolution=merge-duplicates and no
\* on_conflict; a response that is not OK is thrown.
upsertListing(data, listings, outcome, uniq) ==
  LET status == IF Truthy(data.status) /\ data.status \in ALLOWED_STATUSES
                THEN data.status ELSE Str("active")
      payload ==
        [vendor_id |-> data.vendor_id,
         external_id |-> data.external_id,
         title |-> data.title,
         description |-> Or(data.description, Null),
         price |-> Coalesce(data.price, Null),
         currency |-> Or(data.currency, Null),
         category |-> Or(data.category, Null),
         tags |-> Or(data.tags, Arr(<<>>)),
         images |-> Or(data.images, Arr(<<>>)),
         location |-> Or(data.location, Null),
         source |-> Str("whatsapp"),
         status |-> status,
         original_link |-> Null]
      u == Upsert(listings, payload, "pk", outcome, uniq)
  IN [listings |-> u.listings, throws |-> u.res # "ok",
      attempt |-> [item |-> 1, payload |-> payload, outcome |-> outcome, res |-> u.res]]

\* The POST path once there is a first message.
whatsappMessage(msg, contacts, env, listings, keys, uniq) ==
  LET waId == Or(Get(First(contacts), "wa_id"), Get(msg, "from"))
      messageId == Get(msg, "id")
      found == findProfileByWaId(waId, env)
      tr1 == [NoTrace EXCEPT !.strategies = <<[name |-> "profile", outcome |-> env.profile]>>]
  IN
  IF found.throws \/ found.rows = {}
  THEN Result(listings, keys, 200, "Profile not found", 0, 0, [tr1 EXCEPT !.sent = 1])
  ELSE
    LET vendorId == (CHOOSE p \in found.rows : TRUE).user_id
        parts == SelectSeq(<<Get(Get(msg, "text"), "body"),
                             Get(Get(msg, "image"), "caption"),
                             Get(Get(msg, "document"), "caption")>>, Truthy)
        text == IF parts = <<>> THEN Txt(<<>>)
                ELSE IF Len(parts) = 1 THEN Txt(Trim(parts[1].c))
                ELSE Txt(Trim(parts[1].c \o <<"\n">> \o parts[2].c))
        imageUrls == IF Get(msg, "type") = Str("image") /\ Truthy(Get(Get(msg, "image"), "id"))
                        /\ env.image = "ok"
                     THEN <<Str("wa-image-url")>> ELSE <<>>
        acks == IF env.slow THEN 1 ELSE 0
        ai == aiExtractProduct(text, env.ai)
        tr0 == [tr1 EXCEPT !.resolved = vendorId, !.sent = acks,
                           !.extraction = <<[text |-> text, given |-> env.ai,
                                             fragment |-> ai]>>]
        title == Slice(Or(Get(ai, "title"), Untitled), TitleLen)
        status == IF Truthy(Get(ai, "status")) /\ Get(ai, "status") \in ALLOWED_STATUSES
                  THEN Get(ai, "status") ELSE Str("active")
        aiImages == Or(Get(ai, "images"), Arr(<<>>))
        images == Arr(Dedupe(aiImages.a \o imageUrls))
        up == upsertListing(
                [vendor_id |-> Str(vendorId),
                 external_id |-> Or(Get(ai, "external_id"), messageId),
                 title |-> title,
                 description |-> Get(ai, "description"),
                 price |-> Get(ai, "price"),
                 currency |-> Or(Get(ai, "currency"), Str("NGN")),
                 category |-> Get(ai, "category"),
                 tags |-> Get(ai, "tags"),
                 images |-> images,
                 location |-> Get(ai, "location"),
                 status |-> status],
                listings, UpsertOutcome(env, 1), uniq)
        tr2 == [tr0 EXCEPT !.attempts = <<up.attempt>>]
    IN IF Or(Get(ai, "title"), Untitled).t # "string"
       THEN Unhandled(listings, keys, tr0)   \* .slice is not a function
       ELSE IF up.throws
       THEN Unhandled(up.listings, keys, tr2)
       ELSE Result(up.listings, keys, 200, "OK", 1, 0, [tr2 EXCEPT !.sent = acks + 1])

\* A handshake that checks the mode alone.
Verified_ModeOnly(query, env) == query.mode = Str("subscribe")

\* mode === "subscribe" && token === META_VERIFY_TOKEN
Verified(query, env) ==
  query.mode = Str("subscribe") /\ query.token = Str(env.META_VERIFY_TOKEN)

\* The handler processing the last message of the delivery, not the first.
handler_whatsapp_LastMessage(req, env, listings, keys, uniq) ==
  IF req.method # "POST" \/ req.body = Malformed
  THEN Unhandled(listings, keys, NoTrace)
  ELSE
    LET value == Get(First(Get(First(Get(ParseBody(req), "entry")), "changes")), "value")
        messages == Or(Get(value, "messages"), Arr(<<>>))
        contacts == Or(Get(value, "contacts"), Arr(<<>>))
    IN
    IF messages.t # "array" \/ Len(messages.a) = 0
    THEN Result(listings, keys, 200, "No messages", 0, 0, NoTrace)
    ELSE whatsappMessage(messages.a[Len(messages.a)], contacts, env, listings, keys, uniq)

\* export async function handler(event) of whatsapp_product_sync
\* (the body of a handshake response is kept in the error field)
handler_whatsapp(req, env, listings, keys, uniq) ==
  IF req.method = "GET"
  THEN IF Verified(req.query, env)
       THEN Result(listings, keys, 200,
                   IF Truthy(req.query.challenge) THEN req.query.challenge.s ELSE "",
                   0, 0, NoTrace)
       ELSE Result(listings, keys, 403, "Forbidden", 0, 0, NoTrace)
  ELSE IF req.method # "POST"
  THEN Result(listings, keys, 405, "Method Not Allowed", 0, 0, NoTrace)
  ELSE IF req.body = Malformed THEN Unhandled(listings, keys, NoTrace)
  ELSE
    LET body == ParseBody(req)
        value == Get(First(Get(First(Get(body, "entry")), "changes")), "value")
        messages == Or(Get(value, "messages"), Arr(<<>>))
        contacts == Or(Get(value, "contacts"), Arr(<<>>))
    IN
    IF Throws(body) THEN Unhandled(listings, keys, NoTrace)
    ELSE IF messages.t # "array" \/ Len(messages.a) = 0
    THEN Result(listings, keys, 200, "No messages", 0, 0, NoTrace)
    ELSE IF Throws(messages.a[1]) THEN Unhandled(listings, keys, NoTrace)
    ELSE whatsappMessage(messages.a[1], contacts, env, listings, keys, uniq)

(***************************************************************************)
(* Requests and environments.                                              *)
(***************************************************************************)
Header(v) == [present |-> TRUE, v |-> v]
NoHeader == [present |-> FALSE, v |-> <<>>]

NoQuery == [mode |-> Null, token |-> Null, challenge |-> Null]

Post(auth, domain, body) ==
  [method |-> "POST", authorization |-> auth, shop_domain |-> domain, body |-> body,
   query |-> NoQuery]

Products(items) == Obj([products |-> Arr(items)])

\* Every external call succeeds.
AllOk ==
  [key |-> "ok", map |-> "ok", touch |-> "ok", profile |-> "ok", image |-> "ok",
   slow |-> FALSE, log |-> "ok", ups |-> [i \in 1..MaxItems |-> "ok"],
   ai |-> [kind |-> "fail"], META_VERIFY_TOKEN |-> ""]

\* A conversational delivery: one entry, one change, the given messages.
Delivery(messages) ==
  Obj([entry |-> Arr(<<Obj([changes |-> Arr(<<Obj([value |->
         Obj([messages |-> Arr(messages), contacts |-> Arr(<<>>)])])>>)])>>)])

TextMessage(from, id, body) ==
  Obj([from |-> Txt(from), id |-> Str(id), type |-> Str("text"),
       text |-> Obj([body |-> Txt(body)])])

(***************************************************************************)
(* The state machine.  A step is one request handled to its end.           *)
(***************************************************************************)
NoRequest ==
  [handler |-> "none", req |-> Post(NoHeader, Undef, Undef), before |-> <<>>,
   keys_before |-> InitialKeys,
   status |-> 0, error |-> "", count |-> 0, error_count |-> 0,
   audit |-> <<>>, strategies |-> <<>>, resolved |-> "none", attempts |-> <<>>,
   sent |-> 0, extraction |-> <<>>, touch |-> "none"]

Init ==
  /\ vendor_listings = <<>>
  /\ vendor_api_keys = InitialKeys
  /\ unique_pair \in BOOLEAN
  /\ now = 0
  /\ last = NoRequest

\* The request is handled with result r.
Step(h, req, r, depth) ==
  /\ now < depth
  /\ now' = now + 1
  /\ vendor_listings' = r.listings
  /\ vendor_api_keys' = r.keys
  /\ last' = [handler |-> h, req |-> req, before |-> vendor_listings,
              keys_before |-> vendor_api_keys,
              status |-> r.status, error |-> r.error, count |-> r.count,
              error_count |-> r.error_count, audit |-> r.audit,
              strategies |-> r.strategies, resolved |-> r.resolved,
              attempts |-> r.attempts, sent |-> r.sent, extraction |-> r.extraction,
              touch |-> r.touch]
  /\ UNCHANGED unique_pair

Serve(Reqs, Envs, depth) ==
  \E req \in Reqs, env \in Envs :
    Step("serve", req, serve(req, env, vendor_listings, vendor_api_keys, unique_pair, now + 1), depth)

Keyonly(Reqs, Envs, depth) ==
  \E req \in Reqs, env \in Envs :
    Step("keyonly", req,
         handler_keyonly(req, env, vendor_listings, vendor_api_keys, unique_pair, now + 1), depth)

CatalogSync(Reqs, Envs, depth) ==
  \E req \in Reqs, env \in Envs :
    Step("catalog_sync", req,
         handler_catalog_sync(req, env, vendor_listings, vendor_api_keys, unique_pair, now + 1), depth)

ShopDomain(Reqs, Envs, depth) ==
  \E req \in Reqs, env \in Envs :
    Step("shop_domain", req,
         handler_shop_domain(req, env, vendor_listings, vendor_api_keys, unique_pair, now + 1), depth)

Whatsapp(Reqs, Envs, depth) ==
  \E req \in Reqs, env \in Envs :
    Step("whatsapp", req,
         handler_whatsapp(req, env, vendor_listings, vendor_api_keys, unique_pair), depth)

\* Provisioning, outside the handlers: a credential is switched off.
Deactivate ==
  \E k \in vendor_api_keys :
    /\ k.is_active
    /\ vendor_api_keys' = (vendor_api_keys \ {k}) \cup {[k EXCEPT !.is_active = FALSE]}
    /\ UNCHANGED <<vendor_listings, unique_pair, now, last>>

(***************************************************************************)
(* Spec: repeated syncs of the same external_id, by both vendors, through  *)
(* every handler; upserts may fail.                                        *)
(***************************************************************************)
Chair == Obj([external_id |-> Str("p1"), title |-> Str("Chair"), price |-> Num(5),
              description |-> Str("oak")])
Desk == Obj([external_id |-> Str("p1"), title |-> Str("Desk")])

ReplayReqs ==
  {Post(Header(Bearer \o k), Undef, Products(<<item>>)) :
     k \in {Key1, Key2}, item \in {Chair, Desk}}

ReplayEnvs ==
  {[AllOk EXCEPT !.ups = [i \in 1..MaxItems |-> o]] : o \in {"ok", "error"}}

ReplayDeliveries ==
  {Post(NoHeader, Undef, Delivery(<<TextMessage(<<"2", "3", "4">>, "p1", body)>>)) :
     body \in {<<"c", "h", "a", "i", "r">>, <<"d", "e", "s", "k">>}}

Next ==
  \/ Serve(ReplayReqs, ReplayEnvs, MaxClock)
  \/ Keyonly(ReplayReqs, ReplayEnvs, MaxClock)
  \/ CatalogSync(ReplayReqs, ReplayEnvs, MaxClock)
  \/ ShopDomain(ReplayReqs, ReplayEnvs, MaxClock)
  \/ Whatsapp(ReplayDeliveries, ReplayEnvs, MaxClock)

Spec == Init /\ [][Next]_vars

(***************************************************************************)
(* SpecBatch: one authenticated vendor posting every body shape: product   *)
(* arrays of every length up to MaxItems (valid items, items missing       *)
(* title, null items), a products field that is no array, a body that is   *)
(* no JSON, platform product objects; any one upsert may fail or throw.    *)
(***************************************************************************)
BatchDepth == 2   \* requests in one behaviour of SpecBatch

NoTitle == Obj([external_id |-> Str("p3"), price |-> Num(5)])

BatchItems == {Chair, NoTitle, Null}

RECURSIVE SeqsUpTo(_, _)
SeqsUpTo(S, n) ==
  IF n = 0 THEN {<<>>}
  ELSE LET shorter == SeqsUpTo(S, n - 1)
       IN shorter \cup {Append(q, x) : q \in {r \in shorter : Len(r) = n - 1}, x \in S}

ShopifyProduct ==
  Obj([id |-> Num(7), title |-> Str("Lamp"), vendor |-> Str("Acme"),
       variants |-> Arr(<<Obj([price |-> Str("12")])>>)])

\* A platform product object that carries no id.
ShopifyNoId ==
  Obj([title |-> Str("Lamp"), vendor |-> Str("Acme"),
       variants |-> Arr(<<Obj([price |-> Str("12")])>>)])

NonArrayProducts == {Str("ab"), Num(7), Obj(NoFields)}

BatchBodies ==
  {Products(q) : q \in SeqsUpTo(BatchItems, MaxItems)}
    \cup {Obj([products |-> v]) : v \in NonArrayProducts}
    \cup {Malformed, ShopifyProduct, ShopifyNoId}

BatchReqs == {Post(Header(Bearer \o Key1), Undef, b) : b \in BatchBodies}

\* At most one upsert of the request fails (returns an error, or throws).
OneFailure ==
  {[i \in 1..MaxItems |-> "ok"]}
    \cup {[i \in 1..MaxItems |-> IF i = k THEN o ELSE "ok"] :
            k \in 1..MaxItems, o \in {"error", "throw"}}

BatchEnvs == {[AllOk EXCEPT !.ups = u, !.log = l] : u \in OneFailure, l \in {"ok", "fail"}}

BatchDeliveries ==
  {Post(NoHeader, Undef, b) :
     b \in {Malformed, Delivery(<<>>),
            Delivery(<<TextMessage(<<"2", "3", "4">>, "m1", <<"c", "h", "a", "i", "r">>)>>)}}

NextBatch ==
  \/ Serve(BatchReqs, BatchEnvs, BatchDepth)
  \/ Keyonly(BatchReqs, BatchEnvs, BatchDepth)
  \/ CatalogSync(BatchReqs, BatchEnvs, BatchDepth)
  \/ ShopDomain(BatchReqs, BatchEnvs, BatchDepth)
  \/ Whatsapp(BatchDeliveries, BatchEnvs, BatchDepth)

SpecBatch == Init /\ [][NextBatch]_vars

(***************************************************************************)
(* SpecAuth: vendor resolution.  Requests with a valid, an unknown, an     *)
(* empty or no bearer token, with and without a vendor name in the body    *)
(* and a shop domain header; lookups may fail; credentials are switched    *)
(* off between requests.                                                   *)
(***************************************************************************)
AuthDepth == 2   \* requests in one behaviour of SpecAuth

\* A products body that also names the store.
Named(vendor) == Obj([products |-> Arr(<<Chair>>), vendor |-> vendor])

TokenReqs ==
  {Post(Header(Bearer \o k), Undef, Named(Str("Acme"))) : k \in {Key1, Key2, KeyX}}
    \cup {Post(Header(Key1), Undef, Products(<<Chair>>))}

StoreReqs ==
  {Post(NoHeader, d, b) :
     d \in {Undef, Str("bolt.shop"), Str("none.shop")},
     b \in {Products(<<Chair>>), Named(Str("Acme")), Named(Str("Nobody"))}}
    \cup {Post(Header(Bearer), Undef, Named(Str("Acme")))}

AuthReqs == TokenReqs \cup StoreReqs

AuthEnvs == {AllOk, [AllOk EXCEPT !.key = "error", !.map = "error"]}

NextAuth ==
  \/ Serve(AuthReqs, AuthEnvs, AuthDepth)
  \/ Keyonly(AuthReqs, AuthEnvs, AuthDepth)
  \/ CatalogSync(AuthReqs, AuthEnvs, AuthDepth)
  \/ ShopDomain(AuthReqs, AuthEnvs, AuthDepth)
  \/ Deactivate

SpecAuth == Init /\ [][NextAuth]_vars

(***************************************************************************)
(* SpecPlatform: platform webhooks.  A single platform product object      *)
(* whose first variant has every kind of price string and quantity (or     *)
(* none, or no variant at all), and pushed products with and without an    *)
(* explicit inventory_count, sent with a credential or under a mapped      *)
(* store name; upserts may fail.                                           *)
(***************************************************************************)
PlatformDepth == 2   \* requests in one behaviour of SpecPlatform

\* The object with the fields of f that are given.
Fields(f) == Obj([k \in {x \in DOMAIN f : f[x] # Undef} |-> f[k]])

Variants ==
  {Fields([price |-> p, inventory_quantity |-> q]) :
     p \in {Undef} \cup {Str(x) : x \in PriceStrings}, q \in {Undef, Num(0), Num(3)}}

PlatformProducts ==
  {Obj([id |-> Num(7), title |-> Str("Lamp"), vendor |-> Str("Acme"),
        variants |-> Arr(vs)]) : vs \in {<<>>} \cup {<<v>> : v \in Variants}}

PushedProducts ==
  {Obj([vendor |-> Str("Acme"),
        products |-> Arr(<<Fields([external_id |-> Str("p1"), title |-> Str("Chair"),
                                   inventory_count |-> n])>>)]) :
     n \in {Undef, Num(0), Num(4)}}

PlatformReqs ==
  {Post(a, Undef, b) : a \in {Header(Bearer \o Key1), NoHeader},
                       b \in PlatformProducts \cup PushedProducts}

PlatformEnvs == ReplayEnvs

NextPlatform ==
  \/ Serve(PlatformReqs, PlatformEnvs, PlatformDepth)
  \/ Keyonly(PlatformReqs, PlatformEnvs, PlatformDepth)
  \/ CatalogSync(PlatformReqs, PlatformEnvs, PlatformDepth)
  \/ ShopDomain(PlatformReqs, PlatformEnvs, PlatformDepth)

SpecPlatform == Init /\ [][NextPlatform]_vars

(***************************************************************************)
(* SpecChat: the conversational channel.  Two linked senders and an        *)
(* unlinked one each deliver their one message, any number of times, with  *)
(* no text, a short text or a text longer than the fallback title, alone   *)
(* or followed by a second message in the same delivery; the               *)
(* extraction call fails or returns any content; the profile lookup or     *)
(* the upsert may fail.                                                    *)
(***************************************************************************)
ChatDepth == 2   \* deliveries in one behaviour of SpecChat

Sofa == <<"s", "o", "f", "a">>

LongText == [i \in 1..(TitleFallbackLen + 1) |-> "a"]

ChatTexts == {<<>>, Sofa, LongText}

\* Each sender delivers one message id.
Senders ==
  { [from |-> <<"2", "3", "4">>, id |-> "m1"],
    [from |-> <<"5", "6">>, id |-> "m2"],
    [from |-> <<"9">>, id |-> "m3"] }

ChatDeliveries ==
  {Post(NoHeader, Undef, Delivery(<<TextMessage(s.from, s.id, t)>>)) :
     s \in Senders, t \in ChatTexts}
    \cup {Post(NoHeader, Undef, Delivery(<<>>))}
    \cup {Post(NoHeader, Undef,
               Delivery(<<TextMessage(a.from, a.id, Sofa), TextMessage(b.from, b.id, Sofa)>>)) :
            a \in Senders, b \in {s \in Senders : s.id = "m2"}}

\* What the extraction call gives: a failure, or content that parses to a
\* fragment, to something that is no fragment, or not at all.
ExtractionOutcomes ==
  {[kind |-> "fail"]}
    \cup {[kind |-> "content", parsed |-> v] :
            v \in {Malformed, Null, Num(5), Obj(NoFields),
                   Obj([title |-> Num(5)]),
                   Obj([title |-> Txt(<<"b", "e", "d">>)]),
                   Obj([title |-> Txt(<<"b", "e", "d">>), external_id |-> Str("x1")]),
                   Obj([title |-> Txt(<<"b", "e", "d">>), status |-> Str("sold")]),
                   Obj([title |-> Txt(<<"b", "e", "d">>), status |-> Str("")]),
                   Obj([title |-> Txt(<<"b", "e", "d">>), status |-> Str("draft")])}}

ChatEnvs ==
  {[AllOk EXCEPT !.ai = a] : a \in ExtractionOutcomes}
    \cup {[AllOk EXCEPT !.ups = [i \in 1..MaxItems |-> "error"]],
          [AllOk EXCEPT !.profile = "error"],
          [AllOk EXCEPT !.slow = TRUE]}

NextChat == Whatsapp(ChatDeliveries, ChatEnvs, ChatDepth)

SpecChat == Init /\ [][NextChat]_vars

(***************************************************************************)
(* SpecMethods: every handler is called with every method; the             *)
(* conversational handler also receives verification handshakes with       *)
(* every mode, token and challenge, under an unset and a set secret.       *)
(***************************************************************************)
MethodDepth == 2   \* requests in one behaviour of SpecMethods

Methods == {"GET", "PUT", "DELETE", "OPTIONS", "POST"}

MethodReqs ==
  {[Post(Header(Bearer \o Key1), Undef, Products(<<Chair>>)) EXCEPT !.method = m] :
     m \in Methods}

Handshake(mode, token, challenge) ==
  [method |-> "GET", authorization |-> NoHeader, shop_domain |-> Undef, body |-> Undef,
   query |-> [mode |-> mode, token |-> token, challenge |-> challenge]]

HandshakeReqs ==
  {Handshake(mode, token, challenge) :
     mode \in {Null, Str("subscribe"), Str("unsubscribe")},
     token \in {Null, Str(""), Str("s3"), Str("bad")},
     challenge \in {Null, Str("c42")}}

ChatMethodReqs ==
  HandshakeReqs
    \cup {[Post(NoHeader, Undef, Delivery(<<TextMessage(<<"2", "3", "4">>, "m1", Sofa)>>))
            EXCEPT !.method = m] : m \in Methods \ {"GET"}}

MethodEnvs == {[AllOk EXCEPT !.META_VERIFY_TOKEN = t] : t \in {"", "s3"}}

NextMethods ==
  \/ Serve(MethodReqs, MethodEnvs, MethodDepth)
  \/ Keyonly(MethodReqs, MethodEnvs, MethodDepth)
  \/ CatalogSync(MethodReqs, MethodEnvs, MethodDepth)
  \/ ShopDomain(MethodReqs, MethodEnvs, MethodDepth)
  \/ Whatsapp(ChatMethodReqs, MethodEnvs, MethodDepth)

SpecMethods == Init /\ [][NextMethods]_vars

(***************************************************************************)
(* SpecAudit: request-fatal outcomes and audit writes.  Requests with a    *)
(* valid, an unknown and no credential and bodies that end in 200, 400,    *)
(* 401 and 500; the audit write and the upserts may fail.                  *)
(***************************************************************************)
AuditDepth == 2   \* requests in one behaviour of SpecAudit

AuditBodies ==
  {Products(<<Chair>>), Products(<<NoTitle>>), Products(<<Null>>), Products(<<>>),
   Obj([products |-> Str("ab")]), Malformed}

AuditReqs ==
  {Post(a, Undef, b) :
     a \in {Header(Bearer \o Key1), Header(Bearer \o KeyX), NoHeader}, b \in AuditBodies}

AuditEnvs ==
  {[AllOk EXCEPT !.log = l, !.ups = [i \in 1..MaxItems |-> u]] :
     l \in {"ok", "fail"}, u \in {"ok", "error"}}

NextAudit ==
  \/ Serve(AuditReqs, AuditEnvs, AuditDepth)
  \/ Keyonly(AuditReqs, AuditEnvs, AuditDepth)
  \/ CatalogSync(AuditReqs, AuditEnvs, AuditDepth)
  \/ ShopDomain(AuditReqs, AuditEnvs, AuditDepth)
  \/ Whatsapp(BatchDeliveries, AuditEnvs, AuditDepth)

SpecAudit == Init /\ [][NextAudit]_vars

(***************************************************************************)
(* SpecTouch: the last_used_at update.  The requests of SpecAudit in       *)
(* environments that differ from AllOk in the update alone: it succeeds,   *)
(* returns an error, or raises.                                            *)
(***************************************************************************)
TouchDepth == 2   \* requests in one behaviour of SpecTouch

TouchEnvs == {[AllOk EXCEPT !.touch = t] : t \in {"ok", "error", "throw"}}

NextTouch ==
  \/ Serve(AuditReqs, TouchEnvs, TouchDepth)
  \/ Keyonly(AuditReqs, TouchEnvs, TouchDepth)
  \/ CatalogSync(AuditReqs, TouchEnvs, TouchDepth)
  \/ ShopDomain(AuditReqs, TouchEnvs, TouchDepth)

SpecTouch == Init /\ [][NextTouch]_vars

(***************************************************************************)
(* Claims.                                                                 *)
(***************************************************************************)
NoDuplicatePair ==
  \A i, j \in 1..Len(vendor_listings) :
    ( /\ vendor_listings[i]["external_id"] # Null
      /\ vendor_listings[i]["vendor_id"] = vendor_listings[j]["vendor_id"]
      /\ vendor_listings[i]["external_id"] = vendor_listings[j]["external_id"] )
    => i = j

\* An upsert of the last request that reached the store with a pair the store
\* already held.
Replays ==
  {k \in 1..Len(last.attempts) :
     /\ last.attempts[k].outcome = "ok"
     /\ Conflicts(last.before, Stringify(last.attempts[k].payload)) # {}}

\* C1: after any sequence of sync requests, through any handler, the
\* listing store holds at most one Listing per (vendor_id, external_id): a
\* sync whose pair already exists updates the existing Listing (the upsert
\* succeeds) and never adds a second one.
C1_OneListingPerPair ==
  /\ NoDuplicatePair
  /\ (unique_pair => \A k \in Replays : last.attempts[k].res = "ok")

\* The attempts of the last request that wrote a pair the store already held
\* (the last such attempt of the request for each pair).
Resyncs ==
  {k \in 1..Len(last.attempts) :
     LET p == Stringify(last.attempts[k].payload) IN
     /\ last.status = 200
     /\ last.attempts[k].res = "ok"
     /\ Conflicts(last.before, p) # {}
     /\ \A m \in (k + 1)..Len(last.attempts) :
          Conflicts(<<NewRow(p)>>, Stringify(last.attempts[m].payload)) = {}}

\* C2: last write wins, whole-record replace: after a second successful sync
\* of a pair, exactly one Listing holds the pair, each of its fields is what
\* the second submission alone produces, and synced_at is the second sync's
\* time.
C2_LastWriteWins ==
  \A k \in Resyncs :
    LET p == Stringify(last.attempts[k].payload)
        rows == Conflicts(vendor_listings, p)
    IN /\ Cardinality(rows) = 1
       /\ \A i \in rows :
            /\ vendor_listings[i] = NewRow(p)
            /\ vendor_listings[i]["synced_at"] = Num(now)

\* The last request was a POST by a vendor the handler resolved.
AuthenticatedPost == last.handler # "none" /\ last.req.method = "POST" /\ last.resolved # "none"

LastProducts == Get(last.req.body, "products")

\* The upserts of the last request that the store accepted.
Written == {k \in 1..Len(last.attempts) : last.attempts[k].res = "ok"}

\* C3: per-item failure containment in the serve handler: for an
\* authenticated POST with a non-empty products array the answer is 200,
\* processed_count + error_count is the number of items, processed_count the
\* number of Listings written, and every written item is in the store.
C3_ItemFailuresContained ==
  ( /\ AuthenticatedPost /\ last.handler = "serve"
    /\ LastProducts.t = "array" /\ Len(LastProducts.a) > 0 )
  => /\ last.status = 200
     /\ last.count + last.error_count = Len(LastProducts.a)
     /\ last.count = Cardinality(Written)
     /\ \A k \in Written :
          Conflicts(vendor_listings, Stringify(last.attempts[k].payload)) # {}

\* C4: an authenticated POST of {"products": []} is answered 200 with zero
\* processed items and writes no Listing.
C4_EmptyArrayIsSuccess ==
  (AuthenticatedPost /\ last.req.body = Products(<<>>))
  => last.status = 200 /\ last.count = 0 /\ vendor_listings = last.before

\* C5: an authenticated POST whose products field is not an array is
\* answered 400 and writes no Listing.
C5_NonArrayIsRejected ==
  (AuthenticatedPost /\ LastProducts \in NonArrayProducts)
  => last.status = 400 /\ vendor_listings = last.before

\* C6: every POST, whatever its outcome, produces exactly one audit entry:
\* logRequest is invoked once, never zero times and never twice.
C6_OneAuditEntry ==
  (last.handler # "none" /\ last.req.method = "POST") => Len(last.audit) = 1

\* C7: no failure leaves the handler as an unhandled exception; it is
\* answered 500 with the generic message and an audit entry is attempted.
C7_FailuresBecome500 ==
  (last.handler # "none" /\ last.req.method = "POST")
  => /\ last.status # 0
     /\ (last.status = 500 =>
           last.error = "Internal server error" /\ Len(last.audit) > 0)

CatalogHandlers == {"serve", "keyonly", "catalog_sync", "shop_domain"}

CatalogPost == last.handler \in CatalogHandlers /\ last.req.method = "POST"

\* The names of the resolution strategies the last request attempted.
Attempted == {last.strategies[i].name : i \in 1..Len(last.strategies)}

StoreStrategies == {"store_name", "shop_url"}

\* The lookups of the last request all returned without an error.
LookupsAnswered == \A i \in 1..Len(last.strategies) : last.strategies[i].outcome = "ok"

\* C8: a request carrying the exact value of an active credential resolves to
\* the credential's vendor and every Listing it writes carries that vendor;
\* a request carrying a deactivated credential is rejected 401 as an invalid
\* key and writes no Listing.
C8_CredentialResolution ==
  CatalogPost =>
    \A k \in last.keys_before :
      last.req.authorization = Header(Bearer \o k.api_key) =>
        IF k.is_active
        THEN LookupsAnswered =>
               /\ last.resolved = k.vendor_id
               /\ last.status # 401
               /\ \A i \in 1..Len(last.attempts) :
                    last.attempts[i].payload["vendor_id"] = Str(k.vendor_id)
               /\ \A i \in 1..Len(vendor_listings) :
                    i > Len(last.before) => vendor_listings[i]["vendor_id"] = Str(k.vendor_id)
        ELSE /\ last.status = 401
             /\ last.error = "Invalid API key"
             /\ last.resolved = "none"
             /\ vendor_listings = last.before

\* C8 witness: a credential that wrote a Listing is deactivated and the next
\* request carrying it is rejected.
C8_Witness ==
  /\ CatalogPost
  /\ last.status = 401
  /\ \E k \in last.keys_before :
       /\ ~k.is_active
       /\ last.req.authorization = Header(Bearer \o k.api_key)
       /\ \E i \in 1..Len(vendor_listings) : vendor_listings[i]["vendor_id"] = Str(k.vendor_id)

\* The last request carried a non-empty bearer token.
BearerTokenPresent ==
  /\ last.req.authorization.present
  /\ IsPrefix(Bearer, last.req.authorization.v)
  /\ Len(last.req.authorization.v) > Len(Bearer)

\* C9: with a non-empty bearer token only the credential strategy is
\* attempted, and a token matching no active credential is rejected 401
\* whatever the body maps to; a store-mapping strategy is attempted only when
\* the token is absent or empty; no request attempts more than one lookup.
C9_NoFallThrough ==
  CatalogPost =>
    /\ BearerTokenPresent =>
         /\ Attempted \subseteq {"api_key"}
         /\ ( (\A k \in last.keys_before :
                 k.is_active => last.req.authorization # Header(Bearer \o k.api_key))
              => last.status = 401 /\ last.resolved = "none"
                 /\ vendor_listings = last.before )
    /\ (Attempted \cap StoreStrategies # {}) =>
         (~last.req.authorization.present \/ last.req.authorization.v \in {<<>>, Bearer})
    /\ Len(last.strategies) <= 1

\* C9 witness: an unknown token with a body naming a mapped store is rejected
\* after the credential lookup alone.
C9_Witness ==
  /\ last.handler \in {"catalog_sync", "shop_domain"}
  /\ last.req.method = "POST"
  /\ LookupsAnswered
  /\ last.req.authorization = Header(Bearer \o KeyX)
  /\ MappedStores("store_name", Get(last.req.body, "vendor")) # {}
  /\ last.status = 401
  /\ Attempted = {"api_key"}

\* C10: with no credential, resolution succeeds iff a StoreMapping exists
\* for the identifier used: the vendor name when present (by store name),
\* else the shop domain (by shop URL); no mapping is a 401, and so is a
\* request carrying neither identifier.
C10_StoreMappingResolution ==
  ( /\ last.handler \in {"catalog_sync", "shop_domain"} /\ last.req.method = "POST"
    /\ ~last.req.authorization.present
    /\ LookupsAnswered )
  => LET name == Get(last.req.body, "vendor")
         domain == last.req.shop_domain
         mapped == IF Truthy(name) THEN MappedStores("store_name", name)
                   ELSE IF Truthy(domain) THEN MappedStores("shop_url", domain)
                   ELSE {}
     IN IF mapped # {}
        THEN /\ last.resolved \in {m.vendor_id : m \in mapped}
             /\ last.status # 401
        ELSE /\ last.resolved = "none"
             /\ last.status = 401

\* The last request was a resolved POST of a single platform product object:
\* title and variant list present, no products field.
PlatformPost ==
  /\ CatalogPost /\ last.resolved # "none"
  /\ HasKey(last.req.body, "title") /\ HasKey(last.req.body, "variants")
  /\ ~HasKey(last.req.body, "products")

\* The price the claim gives a platform product: the number parsed from the
\* first variant's price string, 0 when it is absent or unparsable.
PlatformPrice ==
  LET parsed == parseFloat(Get(First(Get(last.req.body, "variants")), "price"))
  IN IF parsed = NaN THEN Num(0) ELSE parsed

\* C11: a single platform product object is normalized to exactly one
\* product, upserted once, whose external_id is the stringified platform id
\* and whose price is the number parsed from the first variant's price string
\* (0 when absent or unparsable); when the store accepts the upsert a Listing
\* with those values is in the store.
C11_PlatformProductNormalized ==
  PlatformPost =>
    /\ Len(last.attempts) = 1
    /\ \A k \in 1..Len(last.attempts) :
         LET p == Stringify(last.attempts[k].payload) IN
         /\ "external_id" \in DOMAIN p /\ "price" \in DOMAIN p
         /\ p["external_id"] = ToStr(Get(last.req.body, "id"))
         /\ p["price"] = PlatformPrice
         /\ last.attempts[k].res = "ok" =>
              \E i \in Conflicts(vendor_listings, p) :
                vendor_listings[i]["price"] = PlatformPrice

\* A product fragment as the extraction schema has it: an object with a
\* string title.
WellFormedFragment(v) ==
  v.t = "object" /\ "title" \in DOMAIN v.o /\ v.o["title"].t = "string"

\* The extraction call failed: transport error or non-OK status, or a
\* response that is not a well-formed product fragment.
ExtractionFailed(given) ==
  given.kind = "fail" \/ ~WellFormedFragment(given.parsed)

\* C12: whenever the extraction call fails, aiExtractProduct returns the
\* fragment whose only field is a non-empty title, the input text truncated
\* to 120 characters, and the handler goes on, without an exception of its
\* own, to issue the upsert of a Listing with a non-empty title.
C12_ExtractionNeverFails ==
  \A k \in 1..Len(last.extraction) :
    LET e == last.extraction[k] IN
    ExtractionFailed(e.given) =>
      /\ e.fragment = Obj([title |-> Slice(e.text, TitleFallbackLen)])
      /\ Truthy(Get(e.fragment, "title"))
      /\ Len(last.attempts) = 1
      /\ \A i \in 1..Len(last.attempts) : Truthy(last.attempts[i].payload["title"])

\* The Listings a vendor's conversational messages have produced.
ChatListings(v) ==
  {i \in 1..Len(vendor_listings) :
     /\ vendor_listings[i]["vendor_id"] = Str(v)
     /\ vendor_listings[i]["source"] = Str("whatsapp")}

\* C13: at-least-once delivery does not duplicate: however often a sender's
\* message (same sender, same message id) is delivered and whatever the
\* extraction returns on each delivery, the store holds at most one Listing
\* for it, and exactly one once a delivery has been persisted.
C13_RedeliveryDoesNotDuplicate ==
  /\ \A p \in profiles : Cardinality(ChatListings(p.user_id)) <= 1
  /\ (last.handler = "whatsapp" /\ last.count = 1) =>
       Cardinality(ChatListings(last.resolved)) = 1

\* The last request made no credential or store lookup, no store write and
\* no audit entry.
NoEffect ==
  /\ last.strategies = <<>> /\ last.attempts = <<>> /\ last.audit = <<>>
  /\ vendor_listings = last.before /\ vendor_api_keys = last.keys_before
  /\ last.sent = 0

\* The last request was the conversational handler's GET.
HandshakeRequest == last.handler = "whatsapp" /\ last.req.method = "GET"

\* C14 as stated: every request whose method is not POST, the conversational
\* GET apart, is rejected 405 before any lookup, store write or audit entry.
C14_NonPostIs405 ==
  (last.handler # "none" /\ last.req.method # "POST" /\ ~HandshakeRequest)
  => last.status = 405 /\ NoEffect

\* The last request was the serve handler's CORS preflight.
Preflight == last.handler = "serve" /\ last.req.method = "OPTIONS"

\* C14 amended: as stated, except that the serve handler answers OPTIONS
\* with 200, it too before any lookup, store write or audit entry.
C14_NonPostIs405_Amended ==
  (last.handler # "none" /\ last.req.method # "POST" /\ ~HandshakeRequest)
  => /\ last.status = (IF Preflight THEN 200 ELSE 405)
     /\ NoEffect

\* C14 witness: a non-POST request is rejected 405 while the store holds a
\* Listing.
C14_Witness ==
  /\ last.handler # "none" /\ last.req.method \notin {"POST", "GET", "OPTIONS"}
  /\ last.status = 405
  /\ last.before # <<>>

\* C15: in every reachable state, a GET to the conversational handler is
\* answered 200 with the challenge as body exactly when the mode is subscribe
\* and the supplied token equals the configured secret, 403 otherwise; it
\* writes no Listing and sends no message.
C15_VerificationHandshake ==
  \A req \in HandshakeReqs, env \in MethodEnvs :
    LET r == handler_whatsapp(req, env, vendor_listings, vendor_api_keys, unique_pair)
        match == req.query.mode = Str("subscribe")
                 /\ req.query.token = Str(env.META_VERIFY_TOKEN)
    IN /\ r.status = (IF match THEN 200 ELSE 403)
       /\ (match => r.error = (IF req.query.challenge = Null THEN ""
                                                               ELSE req.query.challenge.s))
       /\ r.listings = vendor_listings /\ r.keys = vendor_api_keys
       /\ r.attempts = <<>> /\ r.sent = 0

\* C15 witness: a handshake succeeded while the store holds a Listing, and
\* left it alone.
C15_Witness ==
  /\ HandshakeRequest /\ last.status = 200 /\ last.error = "c42"
  /\ last.before # <<>> /\ vendor_listings = last.before

\* C16: the Reconciler is never called with incomplete data: no handler
\* issues an upsert whose external_id or title is absent or empty, and no
\* Listing in the store has an absent or empty external_id or title.
C16_NoIncompleteUpsert ==
  /\ \A k \in 1..Len(last.attempts) :
       /\ Truthy(last.attempts[k].payload["external_id"])
       /\ Truthy(last.attempts[k].payload["title"])
  /\ \A i \in 1..Len(vendor_listings) :
       /\ Truthy(vendor_listings[i]["external_id"])
       /\ Truthy(vendor_listings[i]["title"])

\* The upserts of the last request that returned an error.
Refused == {k \in 1..Len(last.attempts) : last.attempts[k].res = "error"}

\* C17: a failed upsert is reported, not hidden and not retried: in a request
\* answered 200 no item is upserted twice, every upsert that returned an
\* error is counted as an error, and the reported success count does not
\* exceed the number of upserts the store accepted.
C17_FailedUpsertReported ==
  (last.handler # "none" /\ last.req.method = "POST" /\ last.status = 200) =>
    /\ \A j, k \in 1..Len(last.attempts) :
         last.attempts[j].item = last.attempts[k].item => j = k
    /\ last.error_count >= Cardinality(Refused)
    /\ last.count <= Cardinality(Written)

\* Two runs gave the same response and left the same store.
SameResponse(a, b) ==
  /\ a.status = b.status /\ a.error = b.error
  /\ a.count = b.count /\ a.error_count = b.error_count
  /\ a.listings = b.listings

\* The environments in which the audit write succeeds, and the same
\* environment with the audit write failing.
AuditWrites == {env \in AuditEnvs : env.log = "ok"}
AuditFailed(env) == [env EXCEPT !.log = "fail"]

WrittenInventory ==
  {vendor_listings[i]["inventory_count"] :
     i \in UNION {Conflicts(vendor_listings, Stringify(last.attempts[k].payload)) :
                    k \in Written}}

\* The first variant of the last request's platform product has no quantity.
NoQuantity ==
  ~Truthy(Get(First(Get(last.req.body, "variants")), "inventory_quantity"))

\* The last request pushed a product with an explicit inventory_count of 0.
ExplicitZero ==
  /\ CatalogPost /\ last.resolved # "none" /\ LastProducts.t = "array"
  /\ \E k \in 1..Len(LastProducts.a) :
       Get(LastProducts.a[k], "inventory_count") = Num(0)

\* C20: a Listing written from a single platform product whose first variant
\* has no quantity has inventory_count 0, never the push default 1, and a
\* product pushed with an explicit inventory_count of 0 is written with 0.
C20_InventoryDefaultPreserved ==
  ((PlatformPost /\ NoQuantity) \/ ExplicitZero) =>
    /\ \A k \in 1..Len(last.attempts) :
         /\ "inventory_count" \in DOMAIN last.attempts[k].payload
         /\ last.attempts[k].payload["inventory_count"] = Num(0)
    /\ WrittenInventory \subseteq {Num(0)}

\* The status the extraction call returned, Undef when it returned none.
ReturnedStatus(given) ==
  IF given.kind = "content" THEN Get(given.parsed, "status") ELSE Undef

\* C21: a status returned by extraction that is outside the allowed set is
\* removed from the fragment, nothing else of the fragment changing; every
\* upsert of the conversational channel carries the extracted status when it
\* is allowed and 'active' otherwise, and every Listing of the channel has a
\* status of the allowed set.
C21_ChatStatus ==
  /\ \A k \in 1..Len(last.extraction) :
       LET e == last.extraction[k]
           returned == ReturnedStatus(e.given)
       IN /\ (returned # Undef /\ returned \notin ALLOWED_STATUSES) =>
               /\ ~HasKey(e.fragment, "status")
               /\ e.fragment = DeleteStatus(e.given.parsed)
          /\ \A i \in 1..Len(last.attempts) :
               last.attempts[i].payload["status"] =
                 (IF returned \in ALLOWED_STATUSES THEN returned ELSE Str("active"))
  /\ \A i \in 1..Len(vendor_listings) :
       vendor_listings[i]["source"] = Str("whatsapp") =>
         vendor_listings[i]["status"] \in ALLOWED_STATUSES

\* What the serve handler answers to the last request, from the state the
\* request found, when every external call succeeds.
UntroubledServe ==
  serve(last.req, AllOk, last.before, last.keys_before, unique_pair, now)

\* C22: after a successful credential authentication, a last_used_at update
\* that returns an error or raises leaves the request's outcome as it is
\* when the update succeeds: same status, same counts, same store.
C22_TouchIsBestEffort ==
  (last.handler = "serve" /\ last.touch \in {"error", "throw"}) =>
    /\ last.status = UntroubledServe.status
    /\ last.error = UntroubledServe.error
    /\ last.count = UntroubledServe.count
    /\ last.error_count = UntroubledServe.error_count
    /\ vendor_listings = UntroubledServe.listings

\* The rows the last request created or modified.
Touched ==
  {i \in 1..Len(vendor_listings) :
     i > Len(last.before) \/ vendor_listings[i] # last.before[i]}

\* C23: every Listing the last request created or modified carries the
\* vendor_id resolved for the request, and every Listing that belonged to
\* another vendor before the request is in the store unchanged, whatever its
\* external_id.
C23_VendorIsolation ==
  last.handler # "none" =>
    /\ Len(vendor_listings) >= Len(last.before)
    /\ \A i \in Touched :
         last.resolved # "none" /\ vendor_listings[i]["vendor_id"] = Str(last.resolved)
    /\ \A i \in 1..Len(last.before) :
         last.before[i]["vendor_id"] # Str(last.resolved) =>
           vendor_listings[i] = last.before[i]

\* C23 witness: a request changed its vendor's Listing while another vendor
\* held a Listing with the same external_id.
C23_Witness ==
  /\ last.handler # "none"
  /\ \E i \in Touched : \E j \in 1..Len(last.before) :
       /\ i <= Len(last.before)
       /\ last.before[j]["external_id"] = vendor_listings[i]["external_id"]
       /\ last.before[j]["vendor_id"] # vendor_listings[i]["vendor_id"]

\* The messages of the last conversational delivery.
Delivered ==
  Or(Get(Get(First(Get(First(Get(last.req.body, "entry")), "changes")), "value"),
         "messages"),
     Arr(<<>>))

\* The last delivery's first message comes from a sender with no linked
\* profile, or its profile lookup failed.
NoLinkedProfile ==
  \/ findProfileByWaId(Get(First(Delivered), "from"), AllOk).rows = {}
  \/ \E k \in 1..Len(last.strategies) :
       last.strategies[k].name = "profile" /\ last.strategies[k].outcome # "ok"

\* C24: a conversational POST issues at most one upsert and adds at most one
\* Listing, for the first message of the delivery (its id, unless the
\* extraction gave an external_id, and its sender's vendor); a delivery with
\* no messages, or whose sender has no linked profile or whose profile
\* lookup fails, writes nothing and is answered 200.
C24_OneListingPerDelivery ==
  (last.handler = "whatsapp" /\ last.req.method = "POST"
     /\ last.req.body.t = "object") =>
    /\ Len(last.attempts) <= 1
    /\ Len(vendor_listings) <= Len(last.before) + 1
    /\ \A k \in 1..Len(last.attempts) :
         LET first == First(Delivered)
             owner == findProfileByWaId(Get(first, "from"), AllOk).rows
         IN /\ last.attempts[k].payload["external_id"] =
                 Or(Get(last.extraction[1].fragment, "external_id"), Get(first, "id"))
            /\ last.attempts[k].payload["vendor_id"] \in {Str(p.user_id) : p \in owner}
    /\ (Len(Delivered.a) = 0 \/ NoLinkedProfile) =>
         /\ last.status = 200
         /\ last.attempts = <<>>
         /\ vendor_listings = last.before

\* C24 witness: a delivery of two messages from two linked senders wrote the
\* first sender's Listing and nothing for the second.
C24_Witness ==
  /\ last.handler = "whatsapp" /\ last.req.method = "POST"
  /\ last.req.body.t = "object"
  /\ Len(Delivered.a) = 2
  /\ Get(Delivered.a[1], "id") # Get(Delivered.a[2], "id")
  /\ Get(Delivered.a[1], "id") = Str("m1")
  /\ last.count = 1
  /\ Len(vendor_listings) = Len(last.before) + 1
  /\ vendor_listings[Len(vendor_listings)]["external_id"] = Str("m1")

====
